---- MODULE Spec2Model ----
(***************************************************************************)
(* The category tree of products/models.py (Category, an MPTT model with   *)
(* a materialized `path`) and the dashboard requests of products/views.py  *)
(* that write it.                                                          *)
(*                                                                         *)
(* A string is a sequence of one-character strings, so that '/'-joins,     *)
(* lstrip('/'), the "-k" suffix and slugify are computed on characters.    *)
(* The database is the function db from the primary keys of the stored     *)
(* rows to the rows. Fields that no modelled code path reads or derives    *)
(* anything from (images, icon, meta_*, show_in_menu, sort_order,          *)
(* timestamps, the MPTT lft/rght/tree_id/level columns) are left out: the  *)
(* tree is read through `parent`, which is what the MPTT columns encode.   *)
(***************************************************************************)
EXTENDS Integers, Sequences, FiniteSets, TLC

VARIABLES db, nextPk, last, ops

vars == <<db, nextPk, last, ops>>

\* How many categories are ever inserted (primary keys are never reused).
MaxCats == 3

\* How many requests a run makes.
MaxOps == 4

\* parent = NULL / pk = None
None == 0

Pks == 1..MaxCats

\* Names a request may give a category.
Names == { <<"A">>, <<"a">>, <<"!">> }

\* Slugs a direct save may put on the instance (blank asks for generation).
SlugInputs == { <<>>, <<"c">> }

------------------------------------------------------------------------------
(* Strings *)

RECURSIVE Decimal(_)
Digit(n) ==
    CASE n = 0 -> "0" [] n = 1 -> "1" [] n = 2 -> "2" [] n = 3 -> "3"
      [] n = 4 -> "4" [] n = 5 -> "5" [] n = 6 -> "6" [] n = 7 -> "7"
      [] n = 8 -> "8" [] OTHER -> "9"

\* str(counter) inside the f-string
Decimal(n) ==
    IF n < 10 THEN << Digit(n) >> ELSE Decimal(n \div 10) \o << Digit(n % 10) >>

Lower(ch) ==
    CASE ch = "A" -> "a" [] ch = "B" -> "b" [] ch = "C" -> "c" [] OTHER -> ch

WordChars == { "a", "b", "c", "0", "1", "2", "3", "4", "5", "6", "7", "8", "9", "_" }

\* re.sub(r'[^\w\s-]', '', value.lower())
DropNonWord(s) ==
    LET low == [i \in 1..Len(s) |-> Lower(s[i])]
    IN  SelectSeq(low, LAMBDA ch : ch \in WordChars \cup { " ", "-" })

RECURSIVE CollapseHyphens(_)
\* re.sub(r'[-\s]+', '-', value)
CollapseHyphens(s) ==
    IF s = <<>> THEN <<>>
    ELSE IF Head(s) \in { " ", "-" }
         THEN IF Len(s) > 1 /\ s[2] \in { " ", "-" }
              THEN CollapseHyphens(Tail(s))
              ELSE << "-" >> \o CollapseHyphens(Tail(s))
         ELSE << Head(s) >> \o CollapseHyphens(Tail(s))

RECURSIVE LStrip(_, _)
\* str.lstrip(chars)
LStrip(s, chars) ==
    IF s # <<>> /\ Head(s) \in chars THEN LStrip(Tail(s), chars) ELSE s

RECURSIVE RStrip(_, _)
RStrip(s, chars) ==
    IF s # <<>> /\ s[Len(s)] \in chars
    THEN RStrip(SubSeq(s, 1, Len(s) - 1), chars) ELSE s

\* django.utils.text.slugify (ASCII mode)
slugify(name) ==
    RStrip(LStrip(CollapseHyphens(DropNonWord(name)), { "-", "_" }), { "-", "_" })

------------------------------------------------------------------------------
(* The tree *)

Row(name, slug, parent, is_active, path) ==
    [name |-> name, slug |-> slug, parent |-> parent,
     is_active |-> is_active, path |-> path]

\* category.children
children(d, pk) == { c \in DOMAIN d : d[c].parent = pk }

RECURSIVE Closure(_, _, _)
Closure(d, S, n) ==
    IF n = 0 THEN S
    ELSE Closure(d, S \cup { c \in DOMAIN d : d[c].parent \in S }, n - 1)

\* node.get_descendants(include_self=False)
get_descendants(d, pk) ==
    Closure(d, children(d, pk), Cardinality(DOMAIN d))

\* node.get_descendants(include_self=True)
get_descendants_incl(d, pk) == get_descendants(d, pk) \cup { pk }

RECURSIVE SetToSeq(_)
SetToSeq(S) ==
    IF S = {} THEN <<>>
    ELSE LET m == CHOOSE x \in S : \A y \in S : x <= y
         IN  << m >> \o SetToSeq(S \ { m })

RECURSIVE PreOrder(_, _, _)
RECURSIVE PreOrderAll(_, _, _)
\* The rows below pk in tree order (parents before their children), which is
\* the order get_descendants() yields; siblings are taken by primary key.
PreOrder(d, pk, fuel) ==
    IF fuel = 0 THEN <<>> ELSE PreOrderAll(d, SetToSeq(children(d, pk)), fuel)

PreOrderAll(d, cs, fuel) ==
    IF cs = <<>> THEN <<>>
    ELSE << Head(cs) >> \o PreOrder(d, Head(cs), fuel - 1)
           \o PreOrderAll(d, Tail(cs), fuel)

------------------------------------------------------------------------------
(* Category: validation, slug, path, save *)

\* Category.clean: TRUE when it raises ValidationError. pk is the instance's
\* primary key (None when unsaved), parent the parent chosen for it.
clean(d, pk, parent) ==
    /\ pk # None
    /\ parent # None
    /\ pk \in get_descendants_incl(d, parent)

\* SlugTaken with the parent filter forgotten
SlugTaken_any_parent(d, pk, parent, slug) ==
    \E c \in DOMAIN d : c # pk /\ d[c].slug = slug

\* Category.objects.filter(slug=slug, parent=self.parent).exclude(pk=self.pk).exists()
SlugTaken(d, pk, parent, slug) ==
    \E c \in DOMAIN d : c # pk /\ d[c].slug = slug /\ d[c].parent = parent

RECURSIVE SlugLoop(_, _, _, _, _, _)
\* the while loop of _generate_unique_slug
SlugLoop(d, pk, parent, base_slug, slug, counter) ==
    IF SlugTaken(d, pk, parent, slug)
    THEN SlugLoop(d, pk, parent, base_slug,
                  base_slug \o << "-" >> \o Decimal(counter), counter + 1)
    ELSE slug

\* Category._generate_unique_slug: the slug the instance carries afterwards
generate_unique_slug(d, pk, inst) ==
    IF inst.slug # <<>> THEN inst.slug
    ELSE LET base_slug == slugify(inst.name)
         IN  SlugLoop(d, pk, inst.parent, base_slug, base_slug, 1)

\* Category._build_path
build_path(d, inst) ==
    IF inst.parent # None
    THEN LStrip(d[inst.parent].path \o << "/" >> \o inst.slug, { "/" })
    ELSE inst.slug

\* UniqueConstraint(fields=['parent', 'name']); a NULL parent never collides.
NameTaken(d, pk, inst) ==
    /\ inst.parent # None
    /\ \E c \in DOMAIN d :
          c # pk /\ d[c].parent = inst.parent /\ d[c].name = inst.name

\* path: unique=True / UniqueConstraint(fields=['path'])
PathTaken(d, pk, path) ==
    \E c \in DOMAIN d : c # pk /\ d[c].path = path

\* InvalidMove refusing only the node itself as its parent
InvalidMove_self_only(d, pk, parent) ==
    /\ pk \in DOMAIN d
    /\ parent # d[pk].parent
    /\ parent = pk

\* MPTTModel.save refuses to move a node under itself or one of its descendants.
InvalidMove(d, pk, parent) ==
    /\ pk \in DOMAIN d
    /\ parent # d[pk].parent
    /\ parent # None
    /\ parent \in get_descendants_incl(d, pk)

Result(d, err) == [db |-> d, err |-> err]

\* super().save(*args, **kwargs): one INSERT or UPDATE of the row pk, of all
\* columns or of the columns named by update_fields.
SuperSave(d, pk, inst, update_fields) ==
    CASE update_fields = "all" ->
           IF InvalidMove(d, pk, inst.parent) THEN Result(d, "InvalidMove")
           ELSE IF NameTaken(d, pk, inst) THEN Result(d, "IntegrityError_name")
           ELSE IF PathTaken(d, pk, inst.path) THEN Result(d, "IntegrityError_path")
           ELSE Result([c \in DOMAIN d \cup { pk } |-> IF c = pk THEN inst ELSE d[c]],
                       "ok")
      [] update_fields = "is_active" ->
           Result([d EXCEPT ![pk].is_active = inst.is_active], "ok")
      [] OTHER ->
           IF PathTaken(d, pk, inst.path) THEN Result(d, "IntegrityError_path")
           ELSE Result([d EXCEPT ![pk].path = inst.path], "ok")

RECURSIVE save(_, _, _, _)
RECURSIVE RebuildDescendants(_, _)

\* for child in self.get_descendants(): child.path = child._build_path();
\*                                      child.save(update_fields=['path'])
RebuildDescendants(r, cs) ==
    IF cs = <<>> \/ r.err # "ok" THEN r
    ELSE LET child == r.db[Head(cs)]
             moved == [child EXCEPT !.path = build_path(r.db, child)]
         IN  RebuildDescendants(save(r.db, Head(cs), moved, "path"), Tail(cs))

\* Category.save. pk is the row's key (not yet in the table for a new
\* instance), inst the instance's field values. The result is the table after
\* the last write that went through, and "ok" or the exception raised.
save(d, pk, inst, update_fields) ==
    LET is_new     == pk \notin DOMAIN d
        old_parent == IF is_new THEN None ELSE d[pk].parent
        self1      == [inst EXCEPT !.slug = generate_unique_slug(d, pk, inst)]
        r1         == SuperSave(d, pk, self1, update_fields)
    IN  IF r1.err # "ok" THEN r1
        ELSE LET new_path == build_path(r1.db, self1)
             IN  IF is_new \/ self1.path # new_path \/ old_parent # self1.parent
                 THEN LET self2 == [self1 EXCEPT !.path = new_path]
                          r2    == SuperSave(r1.db, pk, self2, "path")
                      IN  IF r2.err = "ok" /\ old_parent # self2.parent
                          THEN RebuildDescendants(
                                   r2, PreOrder(r2.db, pk, Cardinality(DOMAIN r2.db)))
                          ELSE r2
                 ELSE r1

\* transaction.atomic around a save: an exception rolls every write back.
atomic_save(d, pk, inst) ==
    LET r == save(d, pk, inst, "all")
    IN  IF r.err = "ok" THEN r ELSE Result(d, r.err)

\* Model.delete with parent on_delete=CASCADE
delete(d, pk) ==
    [c \in DOMAIN d \ get_descendants_incl(d, pk) |-> d[c]]

\* views.has_products: Category has no product_set relation
has_products(d, pk) == FALSE

\* get_object_or_404(Category, path=category_path); None stands for Http404.
\* The route <path:category_path> does not match an empty path.
get_object(d, category_path) ==
    IF category_path # <<>> /\ \E c \in DOMAIN d : d[c].path = category_path
    THEN CHOOSE c \in DOMAIN d : d[c].path = category_path
    ELSE None

\* ModelForm validation over CATEGORY_FIELDS: Category.clean, then the
\* (parent, name) constraint; path and slug are not form fields.
form_is_valid(d, pk, inst) ==
    /\ ~clean(d, pk, inst.parent)
    /\ ~NameTaken(d, pk, inst)

------------------------------------------------------------------------------
(* The requests *)

Request(op, pk, outcome, slug) ==
    [op |-> op, pk |-> pk, outcome |-> outcome, slug |-> slug]

Parents == DOMAIN db \cup { None }

StoredPaths == { db[c].path : c \in DOMAIN db }

Init ==
    /\ db = << >>
    /\ nextPk = 1
    /\ last = Request("none", None, "ok", <<>>)
    /\ ops = 0

\* CategoryCreateView (POST of a valid or invalid form). is_active is posted
\* at the field's default; an update, a toggle or a soft delete clears it.
CategoryCreateView ==
    \E name \in Names, parent \in Parents :
      LET is_active == TRUE
          inst == Row(name, <<>>, parent, is_active, <<>>)
          r    == atomic_save(db, nextPk, inst)
      IN  /\ nextPk <= MaxCats
          /\ IF ~form_is_valid(db, None, inst)
             THEN /\ UNCHANGED <<db, nextPk>>
                  /\ last' = Request("create", None, "invalid", <<>>)
             ELSE /\ db' = r.db
                  /\ nextPk' = IF r.err = "ok" THEN nextPk + 1 ELSE nextPk
                  /\ last' = Request("create", IF r.err = "ok" THEN nextPk ELSE None,
                                     r.err, <<>>)

\* CategoryUpdateView.post for the category the URL names: the form is bound
\* to the stored row, validated, and saved inside transaction.atomic.
CategoryUpdateView_post(d, category_path, name, parent, is_active) ==
    LET pk == get_object(d, category_path)
    IN  IF pk = None THEN Result(d, "Http404")
        ELSE LET inst == [d[pk] EXCEPT !.name = name, !.parent = parent,
                                       !.is_active = is_active]
             IN  IF ~form_is_valid(d, pk, inst) THEN Result(d, "invalid")
                 ELSE atomic_save(d, pk, inst)

CategoryUpdateView ==
    \E category_path \in StoredPaths, name \in Names, parent \in Parents,
       is_active \in BOOLEAN :
      LET r == CategoryUpdateView_post(db, category_path, name, parent, is_active)
      IN  /\ db' = r.db
          /\ UNCHANGED nextPk
          /\ last' = Request("update", get_object(db, category_path), r.err, <<>>)

\* CategoryDeleteView.delete
CategoryDeleteView_delete(d, category_path) ==
    LET category == get_object(d, category_path)
    IN  IF category = None THEN Result(d, "Http404")
        ELSE IF d[category].is_active THEN Result(d, "refused_active")
        ELSE IF children(d, category) # {} \/ has_products(d, category)
        THEN Result(d, "refused_dependencies")
        ELSE Result(delete(d, category), "deleted")

\* DeleteView.post as CategoryDeleteView inherits it. Since Django 4.0 it
\* validates the (empty) confirmation form and calls form_valid, which deletes
\* the addressed object; the `delete` handler above is not on that route.
CategoryDeleteView_post(d, category_path) ==
    LET category == get_object(d, category_path)
    IN  IF category = None THEN Result(d, "Http404")
        ELSE Result(delete(d, category), "deleted")

\* A request to categories/<path>/delete/. The `delete` handler serves the
\* HTTP DELETE method, and POST where DeleteView.post delegates to it; the
\* repository pins no Django version, so a POST takes either route.
CategoryDeleteView ==
    \E category_path \in StoredPaths, handler \in { "delete", "post" } :
      LET r == IF handler = "delete"
               THEN CategoryDeleteView_delete(db, category_path)
               ELSE CategoryDeleteView_post(db, category_path)
      IN  /\ db' = r.db
          /\ UNCHANGED nextPk
          /\ last' = Request("delete", get_object(db, category_path), r.err, <<>>)

\* toggle_category_status -> toggle_field(category, "is_active")
toggle_category_status ==
    \E id \in DOMAIN db :
      LET inst == [db[id] EXCEPT !.is_active = ~@]
          r    == save(db, id, inst, "is_active")
      IN  /\ db' = r.db
          /\ UNCHANGED nextPk
          /\ last' = Request("toggle_status", id, r.err, <<>>)

\* soft_delete_category
soft_delete_category ==
    \E id \in DOMAIN db :
      LET inst == [db[id] EXCEPT !.is_active = FALSE]
          r    == save(db, id, inst, "is_active")
      IN  /\ UNCHANGED nextPk
          /\ IF children(db, id) # {}
             THEN /\ UNCHANGED db
                  /\ last' = Request("soft_delete", id, "has_subcategories", <<>>)
             ELSE IF has_products(db, id)
             THEN /\ UNCHANGED db
                  /\ last' = Request("soft_delete", id, "has_products", <<>>)
             ELSE /\ db' = r.db
                  /\ last' = Request("soft_delete", id, r.err, <<>>)

\* Category(...).save() on a new instance, outside the dashboard forms
SaveNew ==
    \E name \in Names, slug \in SlugInputs, parent \in Parents :
      LET inst == Row(name, slug, parent, TRUE, <<>>)
          r    == atomic_save(db, nextPk, inst)
      IN  /\ nextPk <= MaxCats
          /\ db' = r.db
          /\ nextPk' = IF r.err = "ok" THEN nextPk + 1 ELSE nextPk
          /\ last' = Request("save_new", IF r.err = "ok" THEN nextPk ELSE None,
                             r.err, slug)

\* instance.<field> = value; instance.save() on a stored category
SaveExisting ==
    \E pk \in DOMAIN db :
      \E inst \in { [db[pk] EXCEPT !.name = n] : n \in Names }
             \cup { [db[pk] EXCEPT !.slug = s] : s \in SlugInputs }
             \cup { [db[pk] EXCEPT !.parent = p] : p \in Parents } :
        LET r == atomic_save(db, pk, inst)
        IN  /\ db' = r.db
            /\ UNCHANGED nextPk
            /\ last' = Request("save", pk, r.err, inst.slug)

\* instance.delete() on a stored category
DeleteCategory ==
    \E pk \in DOMAIN db :
      /\ db' = delete(db, pk)
      /\ UNCHANGED nextPk
      /\ last' = Request("model_delete", pk, "deleted", <<>>)

\* one more request
Tick ==
    /\ ops < MaxOps
    /\ ops' = ops + 1

NextViews ==
    \/ Tick /\ CategoryCreateView
    \/ Tick /\ CategoryUpdateView
    \/ Tick /\ CategoryDeleteView

NextAjax ==
    \/ Tick /\ toggle_category_status
    \/ Tick /\ soft_delete_category

NextSaves ==
    \/ Tick /\ SaveNew
    \/ Tick /\ SaveExisting
    \/ Tick /\ DeleteCategory

Next ==
    \/ NextViews
    \/ NextAjax
    \/ NextSaves

\* every way the repository writes categories
Spec == Init /\ [][Next]_vars

\* Category.save and Category.delete called directly
SpecSaves == Init /\ [][NextSaves]_vars

\* the dashboard's create, update and delete views alone
SpecViews == Init /\ [][NextViews]_vars

------------------------------------------------------------------------------
(* Properties *)

RECURSIVE ReachesTop(_, _, _)
\* following parent links from c ends at a top-level category
ReachesTop(d, c, fuel) ==
    IF c = None THEN TRUE
    ELSE IF fuel = 0 \/ c \notin DOMAIN d THEN FALSE
    ELSE ReachesTop(d, d[c].parent, fuel - 1)

Forest(d) == \A c \in DOMAIN d : ReachesTop(d, c, Cardinality(DOMAIN d))

ParentsOf(d) == [c \in DOMAIN d |-> d[c].parent]

RECURSIVE ChainPath(_, _, _)
\* the slugs of c's ancestor chain, top-level category first, joined by '/'
ChainPath(d, c, fuel) ==
    IF d[c].parent = None \/ d[c].parent \notin DOMAIN d \/ fuel = 0
    THEN d[c].slug
    ELSE ChainPath(d, d[c].parent, fuel - 1) \o << "/" >> \o d[c].slug

\* the step is one request
IsRequest(op) == ops' = ops + 1 /\ last'.op = op

\* C1: after any completed saves and deletions, every category's stored path
\* is its slug when it has no parent, and otherwise its parent's stored path,
\* '/', and its slug.
C1_PathIsParentPathAndSlug ==
    \A c \in DOMAIN db :
      db[c].path = IF db[c].parent = None THEN db[c].slug
                   ELSE db[db[c].parent].path \o << "/" >> \o db[c].slug

\* C2: a completed save that changed a stored category's parent leaves the
\* moved category and each of its descendants with the '/'-joined slugs of
\* its new ancestor chain as path, and every other category's path as it was.
C2_MoveRebuildsSubtreePaths ==
    [][ (/\ IsRequest("save")
         /\ last'.outcome = "ok"
         /\ db'[last'.pk].parent # db[last'.pk].parent)
        => LET moved == get_descendants_incl(db', last'.pk)
           IN  /\ \A c \in moved :
                     db'[c].path = ChainPath(db', c, Cardinality(DOMAIN db'))
               /\ \A c \in DOMAIN db' \ moved : db'[c].path = db[c].path ]_vars

\* C3: through the dashboard's create, update and delete views the parent
\* relation stays a forest, and an update request whose parent is the
\* category itself or one of its descendants changes no stored parent.
C3_ParentRelationIsForest ==
    /\ Forest(db)
    /\ \A category_path \in StoredPaths, name \in Names, is_active \in BOOLEAN :
         LET pk == get_object(db, category_path)
         IN  pk # None =>
               \A parent \in get_descendants_incl(db, pk) :
                 ParentsOf(CategoryUpdateView_post(db, category_path, name,
                                                   parent, is_active).db)
                   = ParentsOf(db)

\* C3 witness: an update asked to move a category below itself and was refused
C3_CyclicUpdateRefused ==
    /\ last.op = "update"
    /\ last.outcome = "InvalidMove"
    /\ get_descendants(db, last.pk) # {}

\* C4: clean raises exactly when the category is saved and the chosen parent
\* is the category itself or one of its descendants.
C4_CleanRaisesIffOwnDescendant ==
    \A pk \in DOMAIN db \cup { None }, parent \in Parents :
      clean(db, pk, parent)
        <=> (pk # None /\ parent # None
             /\ parent \in get_descendants_incl(db, pk))

\* the slug C5 expects for the stored row pk when its slug was blank
ExpectedSlug(d, pk) ==
    LET base   == slugify(d[pk].name)
        others == { d[c].slug : c \in { x \in DOMAIN d :
                                         x # pk /\ d[x].parent = d[pk].parent } }
        Suffixed(k) == base \o << "-" >> \o Decimal(k)
        free   == { k \in 1..(Cardinality(others) + 1) : Suffixed(k) \notin others }
    IN  IF base \notin others THEN base
        ELSE Suffixed(CHOOSE k \in free : \A j \in free : k <= j)

\* C5: a save of a category whose slug is blank stores slugify(name), or
\* slugify(name)-k for the least k >= 1 that no other category with the same
\* parent uses; a save of a category whose slug is not blank stores that slug.
C5_SlugGeneration ==
    (last.op \in { "save_new", "save" } /\ last.outcome = "ok")
      => /\ last.pk \in DOMAIN db
         /\ db[last.pk].slug = IF last.slug = <<>> THEN ExpectedSlug(db, last.pk)
                               ELSE last.slug

\* C5 witness: a third sibling with the same base slug was stored as base-2
C5_SecondSuffixStored ==
    /\ last.op = "save_new"
    /\ last.outcome = "ok"
    /\ last.slug = <<>>
    /\ db[last.pk].slug = << "a", "-", "2" >>

\* C6: no dashboard create or update writes a path another category already
\* has: the unique-path constraint is never violated and stored paths differ.
C6_PathWritesNeverCollide ==
    /\ last.outcome # "IntegrityError_path"
    /\ \A c1, c2 \in DOMAIN db : c1 # c2 => db[c1].path # db[c2].path

\* C7: the delete view removes the addressed category only when it is
\* inactive and has no subcategories, removes nothing else, and otherwise
\* changes nothing.
C7_DeleteOnlyInactiveLeaf ==
    [][ IsRequest("delete")
        => IF last'.pk = None THEN db' = db
           ELSE LET pk == last'.pk
                IN  /\ (db[pk].is_active \/ children(db, pk) # {}) => db' = db
                    /\ db' # db =>
                         /\ ~db[pk].is_active
                         /\ children(db, pk) = {}
                         /\ DOMAIN db' = DOMAIN db \ { pk }
                         /\ \A c \in DOMAIN db' : db'[c] = db[c] ]_vars

\* C8: soft_delete_category on a category with subcategories answers
\* success=false and changes nothing; otherwise it answers success=true and
\* changes only that category's is_active, to false.
C8_SoftDeleteOnlyClearsIsActive ==
    [][ IsRequest("soft_delete")
        => LET id == last'.pk
           IN  IF children(db, id) # {}
               THEN last'.outcome = "has_subcategories" /\ db' = db
               ELSE /\ last'.outcome = "ok"
                    /\ db' = [db EXCEPT ![id].is_active = FALSE] ]_vars

==============================================================================
